---------------------------- MODULE Spec2Model ----------------------------
(***************************************************************************)
(* A model of the monitoring and alerting pipeline of check_health_go:     *)
(*   - the CPU and memory monitors and their alert handlers                *)
(*     (internal/monitoring/server/cpu, .../memory),                       *)
(*   - the e-mail retry manager (smtp_client/retry),                       *)
(*   - the WebSocket hub (internal/websocket),                             *)
(*   - the MariaDB service monitor (internal/monitoring/services/mariadb). *)
(*                                                                         *)
(* Time is counted in seconds.  A time.Time field is modelled by its age   *)
(* (seconds since it was set), saturating at the largest duration it is    *)
(* ever compared with; the zero time.Time is Never.  All reads of the      *)
(* clock inside one check see the same instant.                            *)
(***************************************************************************)
EXTENDS Integers, Sequences, FiniteSets, TLC

VARIABLES
    res,        \* which monitor this run models: "cpu" or "memory"
    cfg,        \* the configuration read at start-up (never changes)
    mon,        \* Monitor: lastInfo (its status), lastAlertTime
    ah,         \* AlertHandler: the policy state
    out,        \* what the last check did: notifications sent, recovery
    hist,       \* history of the run, read by the properties only
    rt,         \* retry.DefaultManager: one Execute call
    hub,        \* websocket.Handler: its clients
    db,         \* MariaDB Monitor: status and the API-action flag
    cc,         \* the goroutines that run checkMemory
    nt,         \* EmailManager: one SendNotifications call of a monitor
    sm          \* SMTPClient: one sendEmail attempt and its connection

vars == <<res, cfg, mon, ah, out, hist, rt, hub, db, cc, nt, sm>>

---------------------------------------------------------------------------
(* Bounds of the model *)

\* largest critical-throttle count the configuration may set
MaxCriticalThreshold == 2
\* largest daily cap of warning notifications the configuration may set
MaxWarningsCap == 1
\* history counters saturate here
MaxCount == 2
\* len(pendingWarnings) is only ever compared with 0: it is counted up to here
MaxPending == 2
\* largest cooldown_period, in seconds, the configuration may set: above the
\* 30-minute throttle window of the warnings
MaxCooldown == 2100

(* Program constants *)

\* cooldownPeriod := 300
DefaultCooldown == 300
\* warningThrottleWindow := 30 * time.Minute
WarningThrottleWindow == 1800
\* warningEscalation := 5  (cpu)
CpuWarningEscalation == 5
\* warningEscalation := 10 (memory)
MemWarningEscalation == 10
\* aggregationInterval := 5 * time.Minute (cpu)
CpuAggregationInterval == 300
\* aggregationInterval := 15 * time.Minute (memory)
MemAggregationInterval == 900
\* time.Since(m.lastAlertTime) >= 5*time.Minute
ProcessAlertsEvery == 300
\* info.CPUStatus == "critical" && time.Since(m.lastAlertTime) >= 1*time.Minute
ProcessCriticalEvery == 60

Never == -1

Statuses == {"normal", "warning", "critical"}

\* seconds that may pass between two checks (checks less than five minutes
\* apart see the same ages)
Elapsed == {300, 1800}

Min(a, b) == IF a < b THEN a ELSE b

---------------------------------------------------------------------------
(* time.Time as an age *)

\* time.Since(t): the zero time is longer ago than any duration compared with
Since(t) == IF t = Never THEN WarningThrottleWindow ELSE t

IsZero(t) == t = Never

\* the age of t after d more seconds, saturating at cap
Older(t, d, cap) == IF t = Never THEN Never ELSE Min(t + d, cap)


---------------------------------------------------------------------------
(* Configuration (config.ThrottlingConfig, MariaDB.RestartOnThreshold) *)

\* throttling left disabled (every default applies), or enabled with its
\* settings drawn from small ranges
Configs ==
    [ ThrottlingEnabled  : {FALSE},
      CooldownPeriod     : {0},
      MaxWarningsPerDay  : {0},
      AggregationPeriod  : {0},
      CriticalThreshold  : {0},
      MariaDBEnabled     : {TRUE},
      RestartOnThreshold : {FALSE} ]
    \cup
    [ ThrottlingEnabled  : {TRUE},
      CooldownPeriod     : {DefaultCooldown},
      MaxWarningsPerDay  : 1..MaxWarningsCap,
      AggregationPeriod  : {0},
      CriticalThreshold  : 1..MaxCriticalThreshold,
      MariaDBEnabled     : {TRUE},
      RestartOnThreshold : {TRUE} ]

\* throttling enabled with the longest cooldown
LongCooldownConfigs ==
    { [c EXCEPT !.CooldownPeriod = MaxCooldown] :
        c \in {c0 \in Configs : c0.ThrottlingEnabled} }

\* cooldownPeriod as HandleWarningAlert, HandleCriticalAlert and
\* HandleNormalAlert compute it on every call
cooldownPeriod(c) ==
    IF c.ThrottlingEnabled THEN c.CooldownPeriod ELSE DefaultCooldown

\* NewAlertHandler: the throttling settings, defaults unless configured
criticalThrottleCount(c) ==
    IF c.ThrottlingEnabled /\ c.CriticalThreshold > 0
    THEN c.CriticalThreshold ELSE 3

maxWarningsPerDay(c) ==
    IF c.ThrottlingEnabled /\ c.MaxWarningsPerDay > 0
    THEN c.MaxWarningsPerDay ELSE 5

aggregationInterval(r, c) ==
    IF c.ThrottlingEnabled /\ c.AggregationPeriod > 0
    THEN c.AggregationPeriod * 60
    ELSE IF r = "cpu" THEN CpuAggregationInterval ELSE MemAggregationInterval

warningEscalation(r) ==
    IF r = "cpu" THEN CpuWarningEscalation ELSE MemWarningEscalation

\* NewAlertHandler: the policy state after construction
NewAlertHandler ==
    [ lastWarningAlertTime  |-> Never,
      lastCriticalAlertTime |-> Never,
      lastNormalAlertTime   |-> Never,
      warningCount          |-> 0,
      pendingWarnings       |-> 0,
      lastAggregationTime   |-> 0,
      currentCriticalCount  |-> 0,
      warningsSentToday     |-> 0,
      lastDayReset          |-> "today",
      lastInfo              |-> "none" ]

\* the goroutines StartMonitoring may start in one run
MaxLoops == 2
Loops == 1..MaxLoops

\* NewMonitor; trend is what getCPUTrend / getMemoryTrend last returned for
\* the present usageReadings ("none": not asked since they changed)
NewMonitor ==
    [ lastInfo |-> "none", lastAlertTime |-> Never,
      usageReadings |-> <<>>, trend |-> "none",
      run |-> [ enabled   |-> TRUE,    \* Monitoring.CPU.Enabled
                isRunning |-> FALSE,
                closes    |-> 0,       \* close(m.stopChan) executed
                panicked  |-> FALSE,
                \* where each goroutine started by StartMonitoring is
                loop      |-> [g \in Loops |-> "none"] ] ]

\* what a handler call reports besides the new policy state
Quiet(a) == [ ah |-> a, sent |-> <<>>, alerted |-> FALSE, recovery |-> FALSE ]


---------------------------------------------------------------------------
(* internal/alerts/handler.go *)

\* Handler.ShouldThrottleAlert.  Neither Monitor implements
\* IsThrottlingEnabled/GetThrottlingCooldownPeriod, so the interface check
\* fails and throttlingEnabled keeps its default.
ShouldThrottleAlert(statusChanged, lastAlertTime) ==
    LET throttlingEnabled == FALSE
    IN  IF statusChanged \/ ~throttlingEnabled
        THEN FALSE
        ELSE Since(lastAlertTime) < DefaultCooldown

---------------------------------------------------------------------------
(* The alert handlers.  Each operator takes the policy state a and returns  *)
(* the new policy state with what the call did: the notifications handed    *)
(* to SendNotifications (sent), whether Monitor.UpdateLastAlertTime ran     *)
(* (alerted) and whether performRecoveryActions ran (recovery).             *)

\* the daily-counter reset at the head of HandleWarningAlert
ResetAlways(a) == [a EXCEPT !.warningsSentToday = 0, !.lastDayReset = "today"]
ResetDailyCounter(a) ==
    IF a.lastDayReset # "today"
    THEN [a EXCEPT !.warningsSentToday = 0, !.lastDayReset = "today"]
    ELSE a

\* cpu AlertHandler.sendWarningNotification
CpuSendWarningKeepsCount(a, statusChanged, lastAlertTime) ==
    LET a1 == [a EXCEPT !.warningsSentToday = @ + 1]
    IN  IF ShouldThrottleAlert(statusChanged, lastAlertTime)
        THEN Quiet(a1)
        ELSE [ ah |-> [a1 EXCEPT !.lastWarningAlertTime = 0],
               sent |-> <<"warning">>, alerted |-> TRUE, recovery |-> FALSE ]
CpuSendWarningNotification(a, statusChanged, lastAlertTime) ==
    LET a1 == [a EXCEPT !.warningsSentToday = @ + 1]
    IN  IF ShouldThrottleAlert(statusChanged, lastAlertTime)
        THEN Quiet(a1)
        ELSE [ ah |-> [a1 EXCEPT !.lastWarningAlertTime = 0,
                                 !.warningCount = 0],
               sent |-> <<"warning">>, alerted |-> TRUE, recovery |-> FALSE ]

\* memory AlertHandler.sendWarningNotification
MemSendWarningNotification(a, statusChanged) ==
    [ ah |-> [a EXCEPT !.warningsSentToday = @ + 1,
                       !.lastWarningAlertTime = 0,
                       !.warningCount = 0],
      sent |-> <<"warning">>, alerted |-> TRUE, recovery |-> FALSE ]

\* AlertHandler.sendAggregatedWarningAlert (cpu and memory alike)
AggregatedKeepsPending(a) ==
    IF a.pendingWarnings = 0
    THEN Quiet(a)
    ELSE [ ah |-> [a EXCEPT !.warningsSentToday = @ + 1,
                            !.lastAggregationTime = 0,
                            !.lastWarningAlertTime = 0,
                            !.warningCount = 0],
           sent |-> <<"aggregated">>, alerted |-> TRUE, recovery |-> FALSE ]
sendAggregatedWarningAlert(a) ==
    IF a.pendingWarnings = 0
    THEN Quiet(a)
    ELSE [ ah |-> [a EXCEPT !.warningsSentToday = @ + 1,
                            !.lastAggregationTime = 0,
                            !.pendingWarnings = 0,
                            !.lastWarningAlertTime = 0,
                            !.warningCount = 0],
           sent |-> <<"aggregated">>, alerted |-> TRUE, recovery |-> FALSE ]

\* "Enforce daily maximum": a.warningsSentToday >= a.maxWarningsPerDay
CapReachedLate(a, c) == a.warningsSentToday > maxWarningsPerDay(c)
CapReached(a, c) == a.warningsSentToday >= maxWarningsPerDay(c)

\* "Only send notification if we hit escalation threshold"
BelowEscalationOffByOne(a, r) == a.warningCount <= warningEscalation(r)
BelowEscalation(a, r) == a.warningCount < warningEscalation(r)

\* cpu AlertHandler.HandleWarningAlert
CpuHandleWarningAlert(a0, c, statusChanged, lastAlertTime) ==
    LET a == [ResetDailyCounter(a0) EXCEPT !.currentCriticalCount = 0]
    IN  IF statusChanged /\ a.lastInfo # "none" /\ a.lastInfo = "critical"
        THEN Quiet([a EXCEPT !.lastInfo = "warning"])
        ELSE IF ~IsZero(a.lastWarningAlertTime)
                /\ Since(a.lastWarningAlertTime) < WarningThrottleWindow
        THEN Quiet(a)
        ELSE IF CapReached(a, c)
        THEN Quiet(a)
        ELSE IF statusChanged
        THEN CpuSendWarningNotification(
                 [a EXCEPT !.warningCount = 0, !.lastInfo = "warning"],
                 statusChanged, lastAlertTime)
        ELSE LET a2 == [a EXCEPT !.warningCount = @ + 1,
                                 !.lastInfo = "warning",
                                 !.pendingWarnings = Min(@ + 1, MaxPending)]
             IN  IF Since(a2.lastAggregationTime) >= aggregationInterval("cpu", c)
                    /\ a2.pendingWarnings > 0
                 THEN sendAggregatedWarningAlert(a2)
                 ELSE IF BelowEscalation(a2, "cpu")
                 THEN Quiet(a2)
                 ELSE CpuSendWarningNotification(a2, statusChanged, lastAlertTime)

\* memory AlertHandler.HandleWarningAlert
MemHandleWarningAlert(a0, c, statusChanged) ==
    LET a == [ResetDailyCounter(a0) EXCEPT !.currentCriticalCount = 0]
    IN  IF statusChanged /\ a.lastInfo # "none" /\ a.lastInfo = "critical"
        THEN Quiet(a)
        ELSE IF ~IsZero(a.lastWarningAlertTime)
                /\ Since(a.lastWarningAlertTime) < WarningThrottleWindow
        THEN Quiet(a)
        ELSE IF CapReached(a, c)
        THEN Quiet(a)
        ELSE IF ~statusChanged
        THEN LET a2 == [a EXCEPT !.warningCount = @ + 1,
                                 !.pendingWarnings = Min(@ + 1, MaxPending)]
             IN  IF Since(a2.lastAggregationTime) >= aggregationInterval("memory", c)
                    /\ a2.pendingWarnings > 0
                 THEN sendAggregatedWarningAlert(a2)
                 ELSE IF BelowEscalation(a2, "memory")
                 THEN Quiet(a2)
                 ELSE MemSendWarningNotification(
                          [a2 EXCEPT !.lastInfo = "warning"], statusChanged)
        ELSE MemSendWarningNotification(
                 [a EXCEPT !.lastInfo = "warning"], statusChanged)

\* currentCriticalCount++ ; the counter is only ever compared with
\* criticalThrottleCount, so it is kept up to that value
CountCriticalKeepsInfo(a, c) ==
    [a EXCEPT !.currentCriticalCount = Min(@ + 1, criticalThrottleCount(c))]
CountCritical(a, c) ==
    [a EXCEPT !.currentCriticalCount = Min(@ + 1, criticalThrottleCount(c)),
              !.lastInfo = "critical"]

\* the two suppression tests of HandleCriticalAlert: the consecutive count,
\* then the cooldown
CooldownNeverEnds(a, c) == ~IsZero(a.lastCriticalAlertTime)
CooldownActive(a, c) ==
    /\ ~IsZero(a.lastCriticalAlertTime)
    /\ Since(a.lastCriticalAlertTime) < cooldownPeriod(c)

CooldownOnlySuppresses(a, c, statusChanged) == CooldownActive(a, c)
CriticalSuppressed(a, c, statusChanged) ==
    \/ ~statusChanged /\ a.currentCriticalCount < criticalThrottleCount(c)
    \/ CooldownActive(a, c)

\* cpu AlertHandler.HandleCriticalAlert
CpuHandleCriticalAlert(a0, c, statusChanged) ==
    LET a == CountCritical(a0, c)
    IN  IF CriticalSuppressed(a, c, statusChanged)
        THEN Quiet(a)
        ELSE [ ah |-> [a EXCEPT !.lastCriticalAlertTime = 0,
                                !.currentCriticalCount = 0],
               sent |-> <<"critical">>, alerted |-> TRUE, recovery |-> FALSE ]

\* memory AlertHandler.HandleCriticalAlert.  GetConfig always returns a
\* *config.Config, so the branch for a failed type assertion is never taken.
MemHandleCriticalAlert(a0, c, statusChanged) ==
    LET a == CountCritical(a0, c)
    IN  IF CriticalSuppressed(a, c, statusChanged)
        THEN Quiet(a)
        ELSE [ ah |-> [a EXCEPT !.lastCriticalAlertTime = 0,
                                !.currentCriticalCount = 0],
               sent |-> <<"critical">>, alerted |-> TRUE,
               recovery |-> c.RestartOnThreshold ]

\* "Reset counters when returning to normal"
ResetWarningCountOnly(a) == [a EXCEPT !.warningCount = 0]
ResetCounters(a) == [a EXCEPT !.warningCount = 0, !.currentCriticalCount = 0]

\* AlertHandler.HandleNormalAlert (cpu and memory alike): lastInfo is
\* overwritten with the normal reading before it is compared with "critical"
HandleNormalAlertAnyChange(a0, c, statusChanged) ==
    LET a == [ResetCounters(a0) EXCEPT !.lastInfo = "normal"]
    IN  IF ~statusChanged
        THEN Quiet(a)
        ELSE IF ~IsZero(a.lastNormalAlertTime)
                /\ Since(a.lastNormalAlertTime) < cooldownPeriod(c)
        THEN Quiet(a)
        ELSE [ ah |-> [a EXCEPT !.lastNormalAlertTime = 0],
               sent |-> <<"normal">>, alerted |-> TRUE, recovery |-> FALSE ]
HandleNormalAlert(a0, c, statusChanged) ==
    LET a == [ResetCounters(a0) EXCEPT !.lastInfo = "normal"]
    IN  IF ~statusChanged \/ (a.lastInfo # "none" /\ a.lastInfo # "critical")
        THEN Quiet(a)
        ELSE IF ~IsZero(a.lastNormalAlertTime)
                /\ Since(a.lastNormalAlertTime) < cooldownPeriod(c)
        THEN Quiet(a)
        ELSE [ ah |-> [a EXCEPT !.lastNormalAlertTime = 0],
               sent |-> <<"normal">>, alerted |-> TRUE, recovery |-> FALSE ]

\* memory AlertHandler.performRecoveryActions: whether it restarts MariaDB
performRecoveryActions(c, isRunning) ==
    c.MariaDBEnabled /\ c.RestartOnThreshold /\ isRunning


---------------------------------------------------------------------------
(* The monitors *)

\* the calendar between two steps: the same day or a later one (the reset
\* compares YearDay() and Year() of now and lastDayReset)
Days == {"same", "next"}

\* d seconds pass
Pass(a, c, r, d, day) ==
    [a EXCEPT
       !.lastWarningAlertTime  =
           Older(@, d, IF cooldownPeriod(c) > WarningThrottleWindow
                       THEN cooldownPeriod(c) ELSE WarningThrottleWindow),
       !.lastCriticalAlertTime = Older(@, d, cooldownPeriod(c)),
       !.lastNormalAlertTime   = Older(@, d, cooldownPeriod(c)),
       !.lastAggregationTime   = Older(@, d, aggregationInterval(r, c)),
       !.lastDayReset          = IF day = "next" THEN "earlier" ELSE @]

\* cpu Monitor.CheckCPU: whether the alert handler is called at all
ProcessOnlyChanges(status, statusChanged, lastAlertTime) == statusChanged
shouldProcessAlerts(status, statusChanged, lastAlertTime) ==
    \/ statusChanged
    \/ Since(lastAlertTime) >= ProcessAlertsEvery
    \/ status = "critical" /\ Since(lastAlertTime) >= ProcessCriticalEvery

\* the switch on the status at the end of CheckCPU
CpuProcessAlerts(a, c, status, statusChanged, lastAlertTime) ==
    CASE status = "normal"   -> HandleNormalAlert(a, c, statusChanged)
      [] status = "warning"  -> CpuHandleWarningAlert(a, c, statusChanged, lastAlertTime)
      [] status = "critical" -> CpuHandleCriticalAlert(a, c, statusChanged)

\* the switch on the status at the end of checkMemory
MemProcessAlerts(a, c, status, statusChanged) ==
    CASE status = "normal"   -> HandleNormalAlert(a, c, statusChanged)
      [] status = "warning"  -> MemHandleWarningAlert(a, c, statusChanged)
      [] status = "critical" -> MemHandleCriticalAlert(a, c, statusChanged)

\* the status comparison under the monitor's mutex
StatusChangedAlways(lastInfo, status) == lastInfo # "none"
StatusChanged(lastInfo, status) == lastInfo # "none" /\ lastInfo # status

\* what one check does to monitor and policy state when the provider
\* returns a reading classified `status`
CheckResult(r, c, m, a, status) ==
    LET changed == StatusChanged(m.lastInfo, status)
        process == r = "memory"
                   \/ shouldProcessAlerts(status, changed, m.lastAlertTime)
        h       == IF ~process THEN Quiet(a)
                   ELSE IF r = "cpu"
                   THEN CpuProcessAlerts(a, c, status, changed, m.lastAlertTime)
                   ELSE MemProcessAlerts(a, c, status, changed)
    IN  [ ah       |-> h.ah,
          mon      |-> [m EXCEPT !.lastInfo = status,
                                  !.lastAlertTime = IF h.alerted THEN 0
                                                    ELSE @],
          sent     |-> h.sent,
          recovery |-> h.recovery,
          changed  |-> changed,
          process  |-> process ]

---------------------------------------------------------------------------
(* The trend of the usage readings *)

\* the readings kept for the trend (maxReadings, 10 in NewMonitor)
MaxReadings == 4

\* usage percentages a reading may have
Usages == {0, 40, 42}

\* the sum of readings[lo..hi]
RECURSIVE SumOf(_, _, _)
SumOf(readings, lo, hi) ==
    IF lo > hi THEN 0 ELSE readings[lo] + SumOf(readings, lo + 1, hi)

\* Monitor.getCPUTrend and Monitor.getMemoryTrend, the name they return.
\* The averages are float64: with firstHalfAvg = 0 the division gives +Inf
\* when the second half is positive and NaN when it is 0, and NaN fails
\* every comparison of the switch.
getCPUTrend(usageReadings) ==
    IF Len(usageReadings) < 2 THEN "stable"
    ELSE LET midpoint      == Len(usageReadings) \div 2
             rest          == Len(usageReadings) - midpoint
             firstHalfSum  == SumOf(usageReadings, 1, midpoint)
             secondHalfSum == SumOf(usageReadings, midpoint + 1,
                                    Len(usageReadings))
             \* percentChange = num / den, den > 0
             num == (secondHalfSum * midpoint - firstHalfSum * rest) * 100
             den == firstHalfSum * rest
         IN  IF firstHalfSum = 0
             THEN IF secondHalfSum > 0 THEN "rapidly increasing"
                  ELSE "stable"
             ELSE CASE num > 5 * den  -> "rapidly increasing"
                    [] num > den /\ num <= 5 * den -> "increasing"
                    [] num < -5 * den -> "rapidly decreasing"
                    [] num < -den /\ num >= -5 * den -> "decreasing"
                    [] OTHER -> "stable"

---------------------------------------------------------------------------
(* smtp_client/retry: DefaultManager.Execute *)

\* largest retry_count the configuration may set
MaxRetryCount == 3

\* retry_count is an unvalidated int of the configuration
RetryCounts == -1..MaxRetryCount

\* the errors sendFunc may return
Errors == {"dial", "timeout", "auth"}

NoResult == [ kind |-> "none", attempts |-> 0, cause |-> "nil" ]

\* the locals of Execute before the loop; outcomes lists what every call of
\* sendFunc returned
NewRetry(n) ==
    [ retryCount |-> n, pc |-> "idle", attempt |-> 0, lastErr |-> "nil",
      result |-> NoResult, outcomes |-> <<>> ]

\* the loop condition: attempt <= retryCount
MoreAttemptsOneExtra(attempt, retryCount) == attempt <= retryCount + 1
MoreAttempts(attempt, retryCount) == attempt <= retryCount

\* lastErr = err
KeepFirstErr(lastErr, err) == IF lastErr = "nil" THEN err ELSE lastErr
NextLastErr(lastErr, err) == err

\* fmt.Errorf("failed to send email after %d attempts: %v", retryCount+1, lastErr)
FinalError(retryCount, lastErr) ==
    [ kind |-> "error", attempts |-> retryCount + 1, cause |-> lastErr ]

\* whether the text of the returned error contains the text of error e
Mentions(result, e) == result.kind = "error" /\ result.cause = e

---------------------------------------------------------------------------
(* internal/websocket: Handler *)

\* connections that may be open at one time
MaxConns == 3

Conns == 1..MaxConns

\* the goroutines that call Broadcast on the memory handler: the ticker loop
\* and a request served by Monitor.WebSocketHandler, both through checkMemory
Broadcasters == {"ticker", "request"}

\* NewHandler, with what the last operation on the handler was and, for a
\* Broadcast, the clients it started with, the clients whose write failed
\* and the clients that got the message
NewHandler ==
    [ clients |-> {}, serving |-> {}, closed |-> {},
      op |-> "none", before |-> {}, bad |-> {}, delivered |-> {},
      rl    |-> {},                             \* goroutines holding mu.RLock
      todo  |-> [g \in Broadcasters |-> {}],    \* clients their loops have
                                                \*   still to visit
      lock  |-> "none",     \* the lock held when clients was last changed
      raced |-> FALSE ]     \* a client was deleted inside another
                            \*   goroutine's loop over clients

\* delete(h.clients, client)
DropAll(clients, client) == {}
Drop(clients, client) == clients \ {client}

\* the loop of Broadcast over the clients still to visit; WriteMessage
\* fails for the clients in bad
RECURSIVE BroadcastLoop(_, _, _)
BroadcastLoop(todo, h, bad) ==
    IF todo = {} THEN h
    ELSE LET client == CHOOSE x \in todo : TRUE
         IN  BroadcastLoop(
                 todo \ {client},
                 IF client \in bad
                 THEN [h EXCEPT !.closed = @ \cup {client},
                                !.clients = Drop(@, client)]
                 ELSE [h EXCEPT !.delivered = @ \cup {client}],
                 bad)

---------------------------------------------------------------------------
(* mariadb Monitor: the API-action flag *)

\* 30*time.Second in ClearAPIAction and wasChangeInitiatedByAPI
ApiGrace == 30

\* seconds that may pass between two steps of the MariaDB monitor
DbElapsed == {10, 20}

ActionTypes == {"start", "stop", "restart"}

NoCheck ==
    [ changed |-> FALSE, notified |-> FALSE, previous |-> "", status |-> "",
      markKind |-> "", markAge |-> Never, restart |-> "none" ]

\* NewMonitor; `running` is the state of the service itself, mark the last
\* call of MarkAPIAction and its age. held is the *Status that the last
\* GetStatus returned: `at` the Status field read when it was returned, `now`
\* the field as the caller reads it through the pointer. restart says
\* whether a restart by the memory alert handler has the service "down", or
\* has brought it "up" again without the monitor having seen it yet
NewDb(running) ==
    [ status |-> "", apiInitiatedChange |-> FALSE, apiActionType |-> "",
      apiActionTime |-> Never, running |-> running,
      markKind |-> "", markAge |-> Never, last |-> NoCheck,
      restart |-> "none",
      held |-> [ taken |-> FALSE, at |-> "", now |-> "" ],
      mu |-> FALSE,         \* m.mu is held by a checkStatus in progress
      api |-> "idle",       \* ServiceHandler.RestartService: "started" once
                            \*   it has started a service it found down
      life |-> [ cancelled |-> FALSE,   \* the context given to Start
                 loop      |-> "off",   \* where Monitor.Start is
                 shutdown  |-> "idle",  \* where Builder.Shutdown is
                 closes    |-> 0,       \* close(m.stopCh) executed
                 panicked  |-> FALSE ] ]

\* Monitor.ClearAPIAction
ClearRearms(m) ==
    IF m.apiInitiatedChange /\ m.apiActionTime > ApiGrace
    THEN [m EXCEPT !.apiActionTime = 0]
    ELSE m
ClearAPIAction(m) ==
    IF m.apiInitiatedChange /\ m.apiActionTime > ApiGrace
    THEN [m EXCEPT !.apiInitiatedChange = FALSE, !.apiActionType = ""]
    ELSE m

\* Monitor.wasChangeInitiatedByAPI
AnyChangeInitiatedByAPI(m) ==
    m.apiInitiatedChange /\ m.apiActionTime <= ApiGrace
wasChangeInitiatedByAPI(m) ==
    /\ m.apiInitiatedChange /\ m.apiActionTime <= ApiGrace
    /\ \/ m.apiActionType = "restart"
       \/ m.apiActionType = "start" /\ m.status = "running"
       \/ m.apiActionType = "stop" /\ m.status = "stopped"

---------------------------------------------------------------------------
(* memory Monitor: the goroutines that run checkMemory *)

\* WebSocket requests that may be served at one time
MaxRequests == 1

\* goroutine 0 is the ticker loop of StartMonitoring, the others serve
\* Monitor.WebSocketHandler
Procs == 0..MaxRequests

\* WebSocket connections of one metric type that may be open at one time
MaxSubscribers == 2
Subscribers == 1..MaxSubscribers

\* the Registry with no memory handler (handlers are numbered in the order
\* NewHandler makes them, 0 is nil) and no request in WebSocketHandler;
\* last is what the latest broadcast did for a connected subscriber
NoRegistry ==
    [ memoryHandler |-> 0,
      made          |-> 0,
      pc            |-> [c \in Subscribers |-> "none"],
      handler       |-> [c \in Subscribers |-> 0],
      last          |-> [c \in Subscribers |-> "none"] ]

NoChecks ==
    [ pc            |-> [p \in Procs |-> "idle"],
      info          |-> [p \in Procs |-> "none"],
      statusChanged |-> [p \in Procs |-> FALSE],
      memoryHandler |-> FALSE,
      reg           |-> NoRegistry ]

---------------------------------------------------------------------------
(* EmailManager and its clients *)

MaxSenders == 2

Providers == {"smtp", "mutt", "other"}

\* MuttClient.Send: mutt, then the mail command, then sendmail, then the
\* file written by sendWithEcho
MuttChain == <<"mutt", "mail", "sendmail", "echo">>

\* NewEmailManager: the client that the configured provider selects
Chain(provider) == IF provider = "mutt" THEN MuttChain ELSE <<"smtp">>

\* the monitor waits for its ticker; nothing was sent yet
NewEmailManager(enabled, provider, senders) ==
    [ pc |-> "waiting", enabled |-> enabled, provider |-> provider,
      senders |-> senders, sender |-> 1, tried |-> <<>>,
      result |-> "none", logged |-> FALSE ]

NoSend == NewEmailManager(TRUE, "smtp", 1)

\* "if err == nil { return nil }" after each transport and each sender
SendNeverStops(ok) == FALSE
SendStops(ok) == ok

\* SendNotifications logs the error of SendEmail and returns to the alert
\* handler, which returns to the check, which returns to the ticker loop
AfterSendFatal(result) == IF result = "error" THEN "stopped" ELSE "waiting"
AfterSend(result) == "waiting"

---------------------------------------------------------------------------
(* SMTPClient.sendEmail: connection, authentication, cleanup *)

\* the codes performLoginAuth expects after AUTH LOGIN, the username and
\* the password
LoginExpects == <<334, 334, 235>>

\* "if code != 334" and "if code != 235" after each command
AcceptsAnyGoAhead(step, code) == code \in {334, 235}
Accepts(step, code) == code = LoginExpects[step]

\* is the connection open after DefaultFactory.Cleanup: Quit closes it when
\* the server answers, client.Close() when not, and conn.Close() always
OpenAfterQuitOnly(open, quitOk) == IF quitOk THEN FALSE ELSE open
OpenAfterCleanup(open, quitOk) == FALSE

\* DefaultFactory.setupTLS: whether it returns an error, given whether the
\* server advertises STARTTLS and whether client.StartTLS succeeds
setupTLSIfOffered(offers, startOk) == offers /\ ~startOk
setupTLS(offers, startOk) == ~offers \/ ~startOk

\* starttls: what the EHLO reply said of STARTTLS when setupTLS asked
NewSMTPClient(useSSL, useTLS, useLogin) ==
    [ pc |-> "idle", useSSL |-> useSSL, useTLS |-> useTLS,
      useLogin |-> useLogin, opened |-> FALSE, open |-> FALSE,
      failed |-> "none", auth |-> "none", sent |-> 0, replies |-> <<>>,
      quit |-> "none", result |-> "none", starttls |-> "none" ]

NoAttempt == NewSMTPClient(FALSE, FALSE, FALSE)

---------------------------------------------------------------------------
(* History of the run *)

WarningClass(sent) ==
    Len(SelectSeq(sent, LAMBDA n : n \in {"warning", "aggregated"}))

\* the warning gates a reading meets before the escalation rule
Throttled(a) ==
    ~IsZero(a.lastWarningAlertTime)
    /\ Since(a.lastWarningAlertTime) < WarningThrottleWindow

NoHistory ==
    [ prev       |-> "none",  \* the status before the last check
      sentToday  |-> 0,       \* warning-class notifications this calendar day
      epRestarts |-> 0,       \* restarts in the present critical episode
      sinceTrans |-> 0,       \* critical readings since a warning->critical
      fired      |-> {},      \*   transition made outside the cooldown, and
                              \*   which of them notified
      run        |-> 0,       \* non-change warning readings without a flush,
      runFired   |-> {},      \*   which of them notified,
      clean      |-> FALSE,   \*   and whether all reached the escalation rule
      sixth      |-> FALSE,   \* the last check read the Warning reading that
                              \*   follows an escalated run
      aggDue     |-> FALSE,   \* the last step read a non-change Warning with
                              \*   the aggregation interval over and warnings
                              \*   pending,
      aggReached |-> FALSE,   \*   or with the interval over and the reading
                              \*   past the throttle window and the daily cap
      skipped    |-> FALSE ]  \* the last step took a reading and did not call
                              \*   the alert handler

Record(h, r, c, m, a, k, status, restarted) ==
    LET C       == criticalThrottleCount(c)
        E       == warningEscalation(r)
        direct  == status = "critical" /\ m.lastInfo = "warning"
                   /\ ~CooldownActive(a, c)
        idx     == IF direct THEN 1
                   ELSE IF status = "critical" /\ h.sinceTrans \in 1..C
                   THEN h.sinceTrans + 1 ELSE 0
        base    == IF direct THEN {} ELSE h.fired
        inRun   == status = "warning" /\ ~k.changed
                   /\ "aggregated" \notin { k.sent[i] : i \in DOMAIN k.sent }
        first   == h.run = 0 \/ h.run >= E
        n       == IF ~inRun THEN 0 ELSE IF first THEN 1 ELSE h.run + 1
        reaches == k.process /\ ~Throttled(a)
                   /\ ~CapReached(ResetDailyCounter(a), c)
    IN  [ prev       |-> m.lastInfo,
          sentToday  |-> Min(h.sentToday + WarningClass(k.sent),
                             maxWarningsPerDay(c) + 1),
          epRestarts |-> IF status # "critical" THEN 0
                         ELSE Min(h.epRestarts + (IF restarted THEN 1 ELSE 0),
                                  MaxCount),
          sinceTrans |-> idx,
          fired      |-> IF idx = 0 \/ idx > C THEN {}
                         ELSE IF k.sent = <<"critical">>
                         THEN base \cup {idx} ELSE base,
          run        |-> n,
          runFired   |-> IF ~inRun THEN {}
                         ELSE (IF first THEN {} ELSE h.runFired)
                              \cup (IF k.sent # <<>> THEN {n} ELSE {}),
          clean      |-> inRun /\ reaches
                         /\ IF first THEN a.warningCount = 0
                            ELSE h.clean,
          sixth      |-> status = "warning" /\ ~k.changed
                         /\ h.clean /\ h.run = E /\ h.runFired = {E},
          aggDue     |-> status = "warning" /\ ~k.changed
                         /\ a.pendingWarnings > 0
                         /\ Since(a.lastAggregationTime)
                                >= aggregationInterval(r, c),
          aggReached |-> status = "warning" /\ ~k.changed /\ reaches
                         /\ Since(a.lastAggregationTime)
                                >= aggregationInterval(r, c),
          skipped    |-> ~k.process ]

---------------------------------------------------------------------------
(* Actions *)

\* asChange: the notification was sent by a handler called with
\* statusChanged = true
\* delivered: SendEmail returned nil for what was sent
Nothing ==
    [ sent |-> <<>>, asChange |-> FALSE, recovery |-> FALSE,
      restarted |-> FALSE, delivered |-> FALSE ]

\* the outcomes SendEmail may have in Handler.SendNotifications; the error
\* is logged there and nothing is returned to the alert handler
Deliveries(sent) == IF sent = <<>> THEN {FALSE} ELSE BOOLEAN

Check(status) ==
    LET k == CheckResult(res, cfg, mon, ah, status)
    IN  \E isRunning \in IF k.recovery THEN BOOLEAN ELSE {FALSE},
           ok \in Deliveries(k.sent) :
          LET restarted == k.recovery /\ performRecoveryActions(cfg, isRunning)
          IN  /\ ah'   = k.ah
              /\ mon'  = k.mon
              /\ out'  = [ sent |-> k.sent,
                           asChange |-> k.changed /\ k.sent # <<>>,
                           recovery |-> k.recovery,
                           restarted |-> restarted,
                           delivered |-> ok ]
              /\ hist' = Record(hist, res, cfg, mon, ah, k, status, restarted)
              /\ UNCHANGED <<res, cfg, rt, hub, db, cc, nt, sm>>

\* Monitor.CheckCPU with a reading from GetCPUInfo
CheckCPU ==
    /\ res = "cpu"
    /\ \E status \in Statuses : Check(status)

\* Monitor.checkMemory with a reading from GetMemoryInfo; the state of the
\* MariaDB service is read only when recovery runs
checkMemory ==
    /\ res = "memory"
    /\ \E status \in Statuses : Check(status)

\* CheckCPU / checkMemory when the provider returns an error: the check
\* returns before it touches anything
SampleFails ==
    /\ out' = Nothing
    /\ hist' = [hist EXCEPT !.prev = mon.lastInfo,
                            !.aggDue = FALSE, !.aggReached = FALSE,
                            !.skipped = FALSE]
    /\ UNCHANGED <<res, cfg, mon, ah, rt, hub, db, cc, nt, sm>>

\* time passes between two checks
Tick ==
    /\ \E d \in Elapsed, day \in Days :
         /\ ah'   = Pass(ah, cfg, res, d, day)
         /\ mon'  = [mon EXCEPT !.lastAlertTime = Older(@, d, ProcessAlertsEvery)]
         /\ hist' = [hist EXCEPT !.prev = mon.lastInfo,
                                 !.sentToday = IF day = "same" THEN @ ELSE 0,
                                 !.aggDue = FALSE, !.aggReached = FALSE,
                                 !.skipped = FALSE]
    /\ out' = Nothing
    /\ UNCHANGED <<res, cfg, rt, hub, db, cc, nt, sm>>

Init ==
    /\ res \in {"cpu", "memory"}
    /\ cfg \in Configs
    /\ mon = NewMonitor
    /\ ah = NewAlertHandler
    /\ out = Nothing
    /\ hist = NoHistory
    /\ rt = NewRetry(0)
    /\ hub = NewHandler
    /\ db = NewDb(TRUE)
    /\ cc = NoChecks /\ nt = NoSend /\ sm = NoAttempt

Next == CheckCPU \/ checkMemory \/ SampleFails \/ Tick

Spec == Init /\ [][Next]_vars

---------------------------------------------------------------------------
(* Properties of the alert policy *)

\* C1: a reading that takes the resource from Critical to Normal sends
\* exactly one 'returned to normal' notification.
C1_NormalNotifiedOnce ==
    (hist.prev = "critical" /\ mon.lastInfo = "normal")
        => out.sent = <<"normal">>

\* C3: no more than maxWarningsPerDay Warning-class notifications
\* (status-change, escalated or aggregated) are sent in one calendar day.
C3_DailyCap == hist.sentToday <= maxWarningsPerDay(cfg)

\* the cap is reached and a changed Warning reading, outside the throttle
\* window and on the same day, is suppressed by it
C3_CapSuppresses ==
    /\ hist.sentToday = maxWarningsPerDay(cfg)
    /\ hist.prev = "normal" /\ mon.lastInfo = "warning"
    /\ ~Throttled(ah) /\ ah.lastDayReset = "today"
    /\ out.sent = <<>>

\* C4: within one critical episode (consecutive Critical readings) the
\* recovery action restarts the service at most once.
C4_OncePerEpisode == hist.epRestarts <= 1

C10_CriticalOnCth ==
    LET C == criticalThrottleCount(cfg)
    IN  hist.sinceTrans = C => hist.fired = {C}

\* C11: a check that takes the status from Warning to Normal sends no
\* notification.
C11_WarningToNormalSilent ==
    (hist.prev = "warning" /\ mon.lastInfo = "normal") => out.sent = <<>>

\* a Normal reading has followed a Warning one that was notified less than
\* a cooldown ago
C11_WarningThenNormal ==
    /\ hist.prev = "warning" /\ mon.lastInfo = "normal"
    /\ ah.lastWarningAlertTime = 0
    /\ out.sent = <<>>

\* C13: whenever the latest sampled reading is Normal or Warning, the count
\* of consecutive Critical readings is 0.
C13_CountZeroAfterNonCritical ==
    mon.lastInfo \in {"normal", "warning"} => ah.currentCriticalCount = 0

\* a Normal or Warning reading has followed a Critical one that was counted
\* and not notified
C13_CountWasReset ==
    /\ hist.prev = "critical" /\ mon.lastInfo \in {"normal", "warning"}
    /\ criticalThrottleCount(cfg) > 1
    /\ IsZero(ah.lastCriticalAlertTime)
    /\ ah.currentCriticalCount = 0

\* C14: warningsSentToday decreases only in a step that finds lastDayReset
\* on an earlier calendar day; that step sets lastDayReset to today and
\* starts the count again from 0 (1 when the same call sends a warning).
C14_ResetOnlyOnNewDay ==
    [][ah'.warningsSentToday < ah.warningsSentToday
         => /\ ah.lastDayReset = "earlier"
            /\ ah'.lastDayReset = "today"
            /\ ah'.warningsSentToday <= 1]_vars

\* the counter is back at 0 after a day on which a warning was sent
C14_CounterWasReset ==
    /\ ah.lastDayReset = "today"
    /\ ah.warningsSentToday = 0
    /\ ~IsZero(ah.lastWarningAlertTime)


\* C29: a check that takes the status from Critical to Warning sends no
\* notification.
C29_CriticalToWarningSilent ==
    (hist.prev = "critical" /\ mon.lastInfo = "warning") => out.sent = <<>>

\* a Warning reading has followed a Critical one with no warning notified in
\* the last 30 minutes and the daily cap not reached
C29_ImprovedUnthrottled ==
    /\ hist.prev = "critical" /\ mon.lastInfo = "warning"
    /\ ~Throttled(ah) /\ ~CapReached(ah, cfg)
    /\ ah.lastDayReset = "today"
    /\ out.sent = <<>>

\* C30: a check whose Critical reading is not a status change sends a
\* Critical notification only if, counted with that reading,
\* currentCriticalCount has reached the critical-throttle count.
C30_NonChangeNeedsCount ==
    [][(/\ mon.lastInfo \in {"none", "critical"}
        /\ mon'.lastInfo = "critical"
        /\ out'.sent # <<>>)
          => ah.currentCriticalCount + 1 >= criticalThrottleCount(cfg)]_vars

\* a Critical reading that repeats the status has sent the notification,
\* the throttle count being more than 1
C30_RepeatedCriticalSent ==
    /\ hist.prev = "critical" /\ mon.lastInfo = "critical"
    /\ out.sent = <<"critical">> /\ ~out.asChange
    /\ criticalThrottleCount(cfg) > 1

\* C31 as stated: a non-change Warning reading read with the aggregation
\* interval over and warnings pending sends exactly one aggregated
\* notification and leaves the buffer empty and the flush time reset.
C31_FlushWhenDue ==
    hist.aggDue => /\ out.sent = <<"aggregated">>
                   /\ ah.pendingWarnings = 0
                   /\ ah.lastAggregationTime = 0

\* C31 as the code has it: the same for a non-change Warning reading that
\* reaches the aggregation rule (the handler is called for it, no Warning
\* notification in the last 30 minutes, daily cap not reached) with the
\* aggregation interval over; the buffer then holds that reading at least.
C31_FlushWhenReached ==
    hist.aggReached => /\ out.sent = <<"aggregated">>
                       /\ ah.pendingWarnings = 0
                       /\ ah.lastAggregationTime = 0

\* the memory monitor has flushed readings buffered before this one
C31_Flushed ==
    /\ hist.aggReached /\ hist.aggDue /\ res = "memory"
    /\ out.sent = <<"aggregated">> /\ ah.pendingWarnings = 0

C26_ChangeNotifiedUnlessCooldown ==
    [][/\ (mon.lastInfo = "normal" /\ mon'.lastInfo = "warning")
            => \/ out'.sent # <<>>
               \/ /\ ~IsZero(ah.lastWarningAlertTime)
                  /\ Since(ah.lastWarningAlertTime) < cooldownPeriod(cfg)
               \/ CapReached(ResetDailyCounter(ah), cfg)
       /\ (mon.lastInfo \in {"normal", "warning"}
             /\ mon'.lastInfo = "critical")
            => (out'.sent # <<>> \/ CooldownActive(ah, cfg))]_vars

\* C37: a check whose notification fails to be delivered leaves the
\* last-sent timestamps, the daily warning count and the counters as they
\* were.
C37_FailedDeliveryNotRecorded ==
    [][(out'.sent # <<>> /\ ~out'.delivered)
         => /\ ah'.lastWarningAlertTime = ah.lastWarningAlertTime
            /\ ah'.lastCriticalAlertTime = ah.lastCriticalAlertTime
            /\ ah'.lastNormalAlertTime = ah.lastNormalAlertTime
            /\ ah'.warningsSentToday = ResetDailyCounter(ah).warningsSentToday
            /\ ah'.warningCount >= ah.warningCount
            /\ ah'.currentCriticalCount >= ah.currentCriticalCount]_vars

\* CheckCPU / checkMemory, a minute or more after the last recorded reading:
\* the usage is appended and the oldest reading dropped beyond maxReadings
RecordUsage ==
    /\ \E usage \in Usages :
         LET all == Append(mon.usageReadings, usage)
         IN  mon' = [mon EXCEPT
                       !.usageReadings = IF Len(all) > MaxReadings
                                         THEN Tail(all) ELSE all,
                       !.trend = "none"]
    /\ UNCHANGED <<res, cfg, ah, out, hist, rt, hub, db, cc, nt, sm>>

\* a notification or the summary report asks for the trend
ReadTrend ==
    /\ mon' = [mon EXCEPT !.trend = getCPUTrend(mon.usageReadings)]
    /\ UNCHANGED <<res, cfg, ah, out, hist, rt, hub, db, cc, nt, sm>>

\* a monitor that has taken no reading yet
InitTrend ==
    /\ res \in {"cpu", "memory"} /\ cfg = CHOOSE c \in Configs : TRUE
    /\ mon = NewMonitor /\ ah = NewAlertHandler
    /\ out = Nothing /\ hist = NoHistory
    /\ rt = NewRetry(0)
    /\ hub = NewHandler /\ db = NewDb(TRUE) /\ cc = NoChecks
    /\ nt = NoSend /\ sm = NoAttempt

NextTrend == RecordUsage \/ ReadTrend

SpecTrend == InitTrend /\ [][NextTrend]_vars

\* C35: when the first half of the readings has mean 0, the trend reported
\* for them is "stable".
C35_ZeroFirstHalfStable ==
    (/\ mon.trend # "none"
     /\ Len(mon.usageReadings) >= 2
     /\ SumOf(mon.usageReadings, 1, Len(mon.usageReadings) \div 2) = 0)
        => mon.trend = "stable"

\* CheckCPU / checkMemory while the resource is Critical
CriticalReading == Check("critical")

NextCritical == CriticalReading \/ SampleFails \/ Tick

\* the resource stays Critical: the ticker keeps firing, the provider keeps
\* returning Critical readings, though a read may fail now and then, and
\* time passes
SpecCritical ==
    /\ Init /\ [][NextCritical]_vars
    /\ WF_vars(CriticalReading) /\ WF_vars(Tick)

\* C40: while the resource stays Critical, a Critical notification is sent
\* again and again: whatever has been sent, a further one is eventually
\* sent.
C40_CriticalSentAgainAndAgain ==
    []<>(out.sent = <<"critical">> /\ mon.lastInfo = "critical")

\* the cpu monitor has sent a Critical notification for a reading that
\* repeats Critical, after an earlier one and the cooldown
C40_CriticalRepeatedAfterCooldown ==
    /\ res = "cpu" /\ hist.prev = "critical" /\ mon.lastInfo = "critical"
    /\ out.sent = <<"critical">> /\ ~out.asChange
    /\ ah.lastCriticalAlertTime = 0 /\ mon.lastAlertTime = 0

\* the cpu monitor under a configuration whose cooldown is longer than the
\* throttle window
InitCooldown ==
    /\ res = "cpu" /\ cfg \in LongCooldownConfigs
    /\ mon = NewMonitor /\ ah = NewAlertHandler
    /\ out = Nothing /\ hist = NoHistory
    /\ rt = NewRetry(0) /\ hub = NewHandler /\ db = NewDb(TRUE)
    /\ cc = NoChecks /\ nt = NoSend /\ sm = NoAttempt

NextCooldown == CheckCPU \/ SampleFails \/ Tick

SpecCooldown == InitCooldown /\ [][NextCooldown]_vars

\* C25: a check sends a notification of a type only if none of that type
\* was sent before or the last one was sent at least the configured
\* cooldown period ago, a check that detects a status change included.
C25_SeparatedByCooldown ==
    [][\A i \in DOMAIN out'.sent :
          LET last == CASE out'.sent[i] = "critical"
                             -> ah.lastCriticalAlertTime
                        [] out'.sent[i] = "normal"
                             -> ah.lastNormalAlertTime
                        [] OTHER -> ah.lastWarningAlertTime
          IN  IsZero(last) \/ last >= cooldownPeriod(cfg)]_vars

---------------------------------------------------------------------------
(* DefaultManager.Execute, one iteration of its loop at a time *)

policy == <<res, cfg, mon, ah, out, hist>>

\* Execute is called
Execute ==
    /\ rt.pc \in {"idle", "done"}
    /\ rt' = [NewRetry(rt.retryCount) EXCEPT !.pc = "loop"]
    /\ UNCHANGED <<policy, hub, db, cc, nt, sm>>

\* one iteration: sendFunc returns nil or an error
Attempt ==
    /\ rt.pc = "loop"
    /\ MoreAttempts(rt.attempt, rt.retryCount)
    /\ \E err \in Errors \cup {"nil"} :
         rt' = IF err = "nil"
               THEN [rt EXCEPT !.outcomes = Append(@, err),
                               !.result = [NoResult EXCEPT !.kind = "nil"],
                               !.pc = "done"]
               ELSE [rt EXCEPT !.outcomes = Append(@, err),
                               !.lastErr = NextLastErr(@, err),
                               !.attempt = @ + 1]
    /\ UNCHANGED <<policy, hub, db, cc, nt, sm>>

\* the loop is left without a success; lastErr.Error() on a nil error (no
\* iteration ran) panics
AllAttemptsFailed ==
    /\ rt.pc = "loop"
    /\ ~MoreAttempts(rt.attempt, rt.retryCount)
    /\ rt' = [rt EXCEPT !.pc = "done",
                        !.result = IF rt.lastErr = "nil"
                                   THEN [NoResult EXCEPT !.kind = "panic"]
                                   ELSE FinalError(rt.retryCount, rt.lastErr)]
    /\ UNCHANGED <<policy, hub, db, cc, nt, sm>>

InitRetry ==
    /\ res = "cpu" /\ cfg \in {c \in Configs : ~c.ThrottlingEnabled}
    /\ mon = NewMonitor /\ ah = NewAlertHandler
    /\ out = Nothing /\ hist = NoHistory
    /\ \E n \in RetryCounts : rt = NewRetry(n)
    /\ hub = NewHandler /\ db = NewDb(TRUE) /\ cc = NoChecks
    /\ nt = NoSend /\ sm = NoAttempt

NextRetry == Execute \/ Attempt \/ AllAttemptsFailed

SpecRetry == InitRetry /\ [][NextRetry]_vars

\* C7: Execute never calls the send function more than retryCount+1 times,
\* calls it no more after the first success (which it returns as nil), and
\* calls it exactly retryCount+1 times when every attempt fails.
C7_AttemptsBounded ==
    LET n == Len(rt.outcomes)
    IN  /\ n <= rt.retryCount + 1
        /\ \A i \in 1..(n - 1) : rt.outcomes[i] # "nil"
        /\ (rt.pc = "done" /\ (n = 0 \/ rt.outcomes[n] # "nil"))
              => (n = rt.retryCount + 1 /\ rt.result.kind # "nil")
        /\ (rt.pc = "done" /\ n > 0 /\ rt.outcomes[n] = "nil")
              => rt.result.kind = "nil"

\* every one of retryCount+1 >= 2 attempts has failed
C7_AllFailed ==
    /\ rt.pc = "done" /\ rt.retryCount >= 1
    /\ Len(rt.outcomes) = rt.retryCount + 1
    /\ rt.result.kind = "error"

\* C8 as stated: the error returned after every attempt failed contains
\* the error of each attempt.
C8_AggregateOfAll ==
    (rt.pc = "done" /\ rt.result.kind = "error")
        => \A i \in 1..Len(rt.outcomes) : Mentions(rt.result, rt.outcomes[i])

\* C8: the error returned after every attempt failed contains the number of
\* attempts, retryCount+1, and the error of the last attempt only.
C8_LastErrorOnly ==
    (rt.pc = "done" /\ rt.result.kind = "error")
        => /\ rt.result.attempts = rt.retryCount + 1
           /\ \A e \in Errors :
                Mentions(rt.result, e) <=> e = rt.outcomes[Len(rt.outcomes)]

\* all attempts failed, the first with another error than the last
C8_TwoErrors ==
    /\ rt.pc = "done" /\ rt.result.kind = "error"
    /\ Len(rt.outcomes) >= 2
    /\ rt.outcomes[1] # rt.outcomes[Len(rt.outcomes)]

---------------------------------------------------------------------------
(* websocket.Handler *)

\* Handler.ServeHTTP up to the read loop: the connection is upgraded and
\* registered
ServeHTTP ==
    /\ hub.rl = {}
    /\ \E c \in Conns \ hub.serving :
         hub' = [hub EXCEPT !.clients = @ \cup {c},
                            !.serving = @ \cup {c},
                            !.closed = @ \ {c},
                            !.op = "register",
                            !.lock = "Lock"]
    /\ UNCHANGED <<policy, rt, db, cc, nt, sm>>

\* Handler.ServeHTTP, ReadMessage fails: the deferred function closes and
\* removes the connection
ReadFails ==
    /\ hub.rl = {}
    /\ \E c \in hub.serving :
         hub' = [hub EXCEPT !.clients = @ \ {c},
                            !.serving = @ \ {c},
                            !.closed = @ \cup {c},
                            !.op = "unregister",
                            !.lock = "Lock"]
    /\ UNCHANGED <<policy, rt, db, cc, nt, sm>>

\* Handler.Broadcast; the read lock keeps ServeHTTP from registering or
\* removing a client meanwhile
Broadcast ==
    /\ \E bad \in SUBSET hub.clients :
         hub' = BroadcastLoop(hub.clients,
                              [hub EXCEPT !.op = "broadcast",
                                          !.lock = IF bad # {} THEN "RLock"
                                                   ELSE @,
                                          !.before = hub.clients,
                                          !.bad = bad,
                                          !.delivered = {}],
                              bad)
    /\ UNCHANGED <<policy, rt, db, cc, nt, sm>>

InitHub ==
    /\ res = "cpu" /\ cfg \in {c \in Configs : ~c.ThrottlingEnabled}
    /\ mon = NewMonitor /\ ah = NewAlertHandler
    /\ out = Nothing /\ hist = NoHistory
    /\ rt = NewRetry(0)
    /\ hub = NewHandler /\ db = NewDb(TRUE) /\ cc = NoChecks
    /\ nt = NoSend /\ sm = NoAttempt

NextHub == ServeHTTP \/ ReadFails \/ Broadcast

SpecHub == InitHub /\ [][NextHub]_vars

(* Handler.Broadcast statement by statement, called by two goroutines *)

\* h.mu.RLock(); the loop starts over the clients registered now
BroadcastBegins ==
    /\ \E g \in Broadcasters \ hub.rl :
         hub' = [hub EXCEPT !.rl = @ \cup {g}, !.todo[g] = hub.clients]
    /\ UNCHANGED <<policy, rt, db, cc, nt, sm>>

\* one iteration of the loop: WriteMessage, and on an error Close and
\* delete(h.clients, client), with the read lock held
BroadcastWrites ==
    /\ \E g \in hub.rl : \E client \in hub.todo[g], ok \in BOOLEAN :
         IF ok /\ client \notin hub.closed
         THEN hub' = [hub EXCEPT !.todo[g] = @ \ {client}]
         ELSE hub' = [hub EXCEPT !.todo[g] = @ \ {client},
                                 !.closed = @ \cup {client},
                                 !.clients = Drop(@, client),
                                 !.lock = "RLock",
                                 !.raced = @ \/ hub.rl # {g}]
    /\ UNCHANGED <<policy, rt, db, cc, nt, sm>>

\* the loop is over: the deferred h.mu.RUnlock()
BroadcastEnds ==
    /\ \E g \in hub.rl :
         /\ hub.todo[g] = {}
         /\ hub' = [hub EXCEPT !.rl = @ \ {g}]
    /\ UNCHANGED <<policy, rt, db, cc, nt, sm>>

NextHubConc ==
    ServeHTTP \/ ReadFails \/ BroadcastBegins \/ BroadcastWrites
    \/ BroadcastEnds

SpecHubConc == InitHub /\ [][NextHubConc]_vars

\* C23: the set of clients is changed only with the exclusive lock held, and
\* no client is deleted while another goroutine is inside its loop over the
\* set.
C23_ChangesUnderExclusiveLock ==
    hub.lock \in {"none", "Lock"} /\ ~hub.raced

\* C6: a Broadcast removes from the subscribers exactly those whose write
\* failed (and closes them); every other subscriber stays and gets the
\* message.
C6_OnlyFailingRemoved ==
    hub.op = "broadcast"
        => /\ hub.clients = hub.before \ hub.bad
           /\ hub.delivered = hub.before \ hub.bad
           /\ hub.bad \subseteq hub.closed

\* a Broadcast to three subscribers of which one failed
C6_OneOfThreeFailed ==
    /\ hub.op = "broadcast"
    /\ Cardinality(hub.before) = 3 /\ Cardinality(hub.bad) = 1
    /\ Cardinality(hub.clients) = 2

---------------------------------------------------------------------------
(* The MariaDB monitor *)

\* Monitor.MarkAPIAction, called by the control API
MarkAPIAction ==
    /\ \E actionType \in ActionTypes :
         db' = [db EXCEPT !.apiInitiatedChange = TRUE,
                          !.apiActionTime = 0,
                          !.apiActionType = actionType,
                          !.markKind = actionType,
                          !.markAge = 0]
    /\ UNCHANGED <<policy, rt, hub, cc, nt, sm>>

\* the service starts or stops, whoever causes it
ServiceChanges ==
    /\ db' = [db EXCEPT !.running = ~@]
    /\ UNCHANGED <<policy, rt, hub, cc, nt, sm>>

\* time passes
DbTick ==
    /\ \E d \in DbElapsed :
         db' = [db EXCEPT
                  !.apiActionTime = Older(@, d, ApiGrace + 10),
                  !.markAge = Older(@, d, ApiGrace + 10)]
    /\ UNCHANGED <<policy, rt, hub, cc, nt, sm>>

\* Monitor.checkStatus when CheckServiceStatus returns an error
checkStatusFails ==
    /\ db' = [ClearAPIAction(db) EXCEPT !.last = NoCheck]
    /\ UNCHANGED <<policy, rt, hub, cc, nt, sm>>

\* the body of Monitor.checkStatus between m.mu.Lock() and the deferred
\* m.mu.Unlock(); notified says whether
\* Notifier.SendStatusChangeNotification was called
StatusChecked ==
    LET m0 == ClearAPIAction(db)
        previousStatus == m0.status
        new == IF m0.running THEN "running" ELSE "stopped"
        m  == [m0 EXCEPT !.status = new,
                         !.restart = IF @ = "up" THEN "none" ELSE @,
                         !.held.now = IF m0.held.taken THEN new ELSE @]
        changed == previousStatus # m.status /\ previousStatus # ""
    IN  [m EXCEPT !.last =
           [ changed  |-> changed,
             notified |-> changed /\ ~wasChangeInitiatedByAPI(m),
             previous |-> previousStatus,
             status   |-> m.status,
             markKind |-> db.markKind,
             markAge  |-> db.markAge,
             restart  |-> db.restart ]]

\* Monitor.checkStatus as one step
checkStatus ==
    /\ db' = StatusChecked
    /\ UNCHANGED <<policy, rt, hub, cc, nt, sm>>

\* Monitor.GetStatus: the caller receives m.status, the pointer to the
\* Status that checkStatus updates in place
GetStatus ==
    /\ db' = [db EXCEPT !.held = [ taken |-> TRUE, at |-> db.status,
                                   now |-> db.status ]]
    /\ UNCHANGED <<policy, rt, hub, cc, nt, sm>>

InitDB ==
    /\ res = "cpu" /\ cfg \in {c \in Configs : ~c.ThrottlingEnabled}
    /\ mon = NewMonitor /\ ah = NewAlertHandler
    /\ out = Nothing /\ hist = NoHistory
    /\ rt = NewRetry(0) /\ hub = NewHandler
    /\ \E running \in BOOLEAN : db = NewDb(running)
    /\ cc = NoChecks /\ nt = NoSend /\ sm = NoAttempt

NextDB ==
    MarkAPIAction \/ ServiceChanges \/ DbTick \/ checkStatusFails \/ checkStatus
    \/ GetStatus

SpecDB == InitDB /\ [][NextDB]_vars

(* The restart of MariaDB by the memory alert handler, with the MariaDB
   monitor running *)

\* memory HandleCriticalAlert has sent a Critical notification and calls
\* performRecoveryActions, which finds the service running and restarts it
RecoveryRestarts ==
    /\ db.restart = "none"
    /\ performRecoveryActions(cfg, db.running)
    /\ db' = [db EXCEPT !.running = FALSE, !.restart = "down"]
    /\ UNCHANGED <<policy, rt, hub, cc, nt, sm>>

\* the restarted service is up again
RestartEnds ==
    /\ db.restart = "down"
    /\ db' = [db EXCEPT !.running = TRUE, !.restart = "up"]
    /\ UNCHANGED <<policy, rt, hub, cc, nt, sm>>

InitRecovery ==
    /\ res = "memory" /\ cfg \in {c \in Configs : c.RestartOnThreshold}
    /\ mon = NewMonitor /\ ah = NewAlertHandler
    /\ out = Nothing /\ hist = NoHistory
    /\ rt = NewRetry(0) /\ hub = NewHandler
    /\ \E running \in BOOLEAN : db = NewDb(running)
    /\ cc = NoChecks /\ nt = NoSend /\ sm = NoAttempt

NextRecovery ==
    RecoveryRestarts \/ RestartEnds \/ MarkAPIAction \/ DbTick
    \/ checkStatusFails \/ checkStatus

SpecRecovery == InitRecovery /\ [][NextRecovery]_vars

\* C22: a status change of MariaDB that the monitor observes while a restart
\* by the alert handler has the service down, or has just brought it up
\* again, is not notified.
C22_RecoveryFlipSilent ==
    (db.last.changed /\ db.last.restart # "none") => ~db.last.notified

---------------------------------------------------------------------------
(* ServiceHandler: the endpoints that start, stop and restart MariaDB *)

\* StartService finds the service stopped: MarkAPIAction("start"), then
\* StartMariaDBService
StartService ==
    /\ db.api = "idle" /\ ~db.running /\ db.restart # "down"
    /\ db' = [db EXCEPT !.apiInitiatedChange = TRUE, !.apiActionTime = 0,
                        !.apiActionType = "start",
                        !.markKind = "start", !.markAge = 0,
                        !.running = TRUE]
    /\ UNCHANGED <<policy, rt, hub, cc, nt, sm>>

\* StopService finds the service running: MarkAPIAction("stop"), then
\* StopMariaDBService
StopService ==
    /\ db.api = "idle" /\ db.running
    /\ db' = [db EXCEPT !.apiInitiatedChange = TRUE, !.apiActionTime = 0,
                        !.apiActionType = "stop",
                        !.markKind = "stop", !.markAge = 0,
                        !.running = FALSE]
    /\ UNCHANGED <<policy, rt, hub, cc, nt, sm>>

\* RestartService finds the service stopped: "starting it first before
\* restart", StartMariaDBService
RestartServiceStarts ==
    /\ db.api = "idle" /\ ~db.running /\ db.restart # "down"
    /\ db' = [db EXCEPT !.running = TRUE, !.api = "started"]
    /\ UNCHANGED <<policy, rt, hub, cc, nt, sm>>

\* RestartService, the service running or just started:
\* MarkAPIAction("restart"), then RestartMariaDBService takes it down
RestartService ==
    /\ \/ db.api = "idle" /\ db.running
       \/ db.api = "started"
    /\ db' = [db EXCEPT !.apiInitiatedChange = TRUE, !.apiActionTime = 0,
                        !.apiActionType = "restart",
                        !.markKind = "restart", !.markAge = 0,
                        !.running = FALSE, !.restart = "down",
                        !.api = "idle"]
    /\ UNCHANGED <<policy, rt, hub, cc, nt, sm>>

\* the monitor beside the endpoints; nothing else controls the service
NextApi ==
    StartService \/ StopService \/ RestartServiceStarts \/ RestartService
    \/ RestartEnds \/ DbTick \/ checkStatus

SpecApi == InitDB /\ [][NextApi]_vars

\* C28: every command of the endpoints is preceded by MarkAPIAction: a
\* status change they cause, observed by a check before any MarkAPIAction or
\* no more than 30 seconds after the latest one, is taken as initiated by
\* the API and not notified.
C28_ApiChangesFlagged ==
    (db.last.changed
       /\ (db.last.markAge = Never \/ db.last.markAge <= ApiGrace))
        => ~db.last.notified

(* Either monitor on its own: the resource monitor while the MariaDB monitor
   has not started, or the MariaDB monitor while the resource monitor has
   not started *)

PolicyIdle ==
    mon = NewMonitor /\ ah = NewAlertHandler /\ out = Nothing
        /\ hist = NoHistory
DbIdle == db = NewDb(TRUE)

InitMonitors == Init \/ InitDB

NextMonitors == (DbIdle /\ Next) \/ (PolicyIdle /\ NextDB)

SpecMonitors == InitMonitors /\ [][NextMonitors]_vars

Expected(kind, status) ==
    \/ kind = "restart"
    \/ kind = "start" /\ status = "running"
    \/ kind = "stop" /\ status = "stopped"

C27_NoSuppressionAfterGrace ==
    (db.last.changed /\ db.last.markAge > ApiGrace) => db.last.notified

\* a start observed 40 seconds after MarkAPIAction("start") is notified
C27_LateStartNotified ==
    /\ db.last.changed /\ db.last.markAge = ApiGrace + 10
    /\ db.last.markKind = "start" /\ db.last.status = "running"
    /\ db.last.notified

\* C20: the Status that GetStatus returned keeps the contents it had when
\* it was returned, whatever checks run afterwards.
C20_StatusIsSnapshot ==
    db.held.taken => db.held.now = db.held.at

\* C12: a check sends a status-change notification only when its status
\* differs from the status stored by the previous successful sample, and it
\* sends one such notification at most; a check that repeats the stored
\* status sends none. The same for the MariaDB monitor: it notifies only on
\* a check whose status differs from the previous known one.
C12_ChangeNotifiedOnChange ==
    /\ out.asChange
          => /\ hist.prev \notin {"none", mon.lastInfo}
             /\ Len(out.sent) = 1
    /\ db.last.notified
          => db.last.previous \notin {"", db.last.status}

\* a Warning reading after a Normal one is notified as a status change
C12_TransitionNotified ==
    /\ hist.prev = "normal" /\ mon.lastInfo = "warning"
    /\ out.asChange /\ out.sent = <<"warning">>

\* the MariaDB monitor notifies a stop that no API action explains
C12_StopNotified ==
    /\ db.last.previous = "running" /\ db.last.status = "stopped"
    /\ db.last.notified

---------------------------------------------------------------------------
(* checkMemory on the ticker goroutine and on the goroutines that serve the *)
(* memory WebSocket endpoint, statement by statement                       *)

InCheck == {"sampled", "stored", "broadcast"}

\* the ticker fires, or Monitor.WebSocketHandler is entered (it registers
\* the memory handler if there is none and forces a check): checkMemory
\* starts and GetMemoryInfo returns a reading
GetMemoryInfo ==
    /\ \E p \in Procs, status \in Statuses :
         /\ cc.pc[p] = "idle"
         /\ cc' = [cc EXCEPT !.pc[p] = "sampled",
                             !.info[p] = status,
                             !.memoryHandler = @ \/ p # 0]
    /\ UNCHANGED <<policy, rt, hub, db, nt, sm>>

\* the comparison with m.lastInfo and its replacement, under m.mutex
CompareAndStore ==
    /\ \E p \in Procs :
         /\ cc.pc[p] = "sampled"
         /\ cc' = [cc EXCEPT !.pc[p] = "stored",
                             !.statusChanged[p] =
                                 StatusChanged(mon.lastInfo, cc.info[p])]
         /\ mon' = [mon EXCEPT !.lastInfo = cc.info[p]]
    /\ UNCHANGED <<res, cfg, ah, out, hist, rt, hub, db, nt, sm>>

\* registry.BroadcastMemory, summaryReporter.RecordEvent, the trend reading
BroadcastMemory ==
    /\ \E p \in Procs :
         /\ cc.pc[p] = "stored"
         /\ cc' = [cc EXCEPT !.pc[p] = "broadcast"]
    /\ UNCHANGED <<policy, rt, hub, db, nt, sm>>

\* the switch on info.MemoryStatus: the alert handler is called with the
\* reading and the statusChanged this goroutine computed; the ticker
\* goroutine then waits for the next tick, a request goroutine goes on to
\* handler.ServeHTTP
ProcessAlerts ==
    /\ \E p \in Procs :
         /\ cc.pc[p] = "broadcast"
         /\ LET h == MemProcessAlerts(ah, cfg, cc.info[p], cc.statusChanged[p])
            IN  /\ ah'  = h.ah
                /\ mon' = [mon EXCEPT !.lastAlertTime =
                                          IF h.alerted THEN 0 ELSE @]
                /\ \E ok \in Deliveries(h.sent) :
                     out' = [ sent |-> h.sent,
                              asChange |-> cc.statusChanged[p] /\ h.sent # <<>>,
                              recovery |-> h.recovery,
                              restarted |-> FALSE,
                              delivered |-> ok ]
         /\ cc' = [cc EXCEPT !.pc[p] = IF p = 0 THEN "idle" ELSE "serving",
                             !.info[p] = "none",
                             !.statusChanged[p] = FALSE]
    /\ UNCHANGED <<res, cfg, hist, rt, hub, db, nt, sm>>

\* the WebSocket client goes away and Monitor.WebSocketHandler returns
RequestEnds ==
    /\ \E p \in Procs :
         /\ cc.pc[p] = "serving"
         /\ cc' = [cc EXCEPT !.pc[p] = "idle"]
    /\ UNCHANGED <<policy, rt, hub, db, nt, sm>>

InitConc ==
    /\ res = "memory" /\ cfg \in Configs
    /\ mon = NewMonitor /\ ah = NewAlertHandler
    /\ out = Nothing /\ hist = NoHistory
    /\ rt = NewRetry(0) /\ hub = NewHandler /\ db = NewDb(TRUE)
    /\ cc = NoChecks /\ nt = NoSend /\ sm = NoAttempt

NextConc ==
    GetMemoryInfo \/ CompareAndStore \/ BroadcastMemory \/ ProcessAlerts
    \/ RequestEnds

SpecConc == InitConc /\ [][NextConc]_vars

\* C2: at most one execution of the memory check is in progress at any
\* time, the checks forced by WebSocket requests included.
C2_OneCheckAtATime ==
    Cardinality({p \in Procs : cc.pc[p] \in InCheck}) <= 1

---------------------------------------------------------------------------
(* Handler.SendNotifications -> EmailManager.SendEmail -> EmailClient.Send, *)
(* one transport at a time                                                 *)

\* a check of the monitor decides to notify
SendNotifications ==
    /\ nt.pc = "waiting"
    /\ nt' = [nt EXCEPT !.pc = "email", !.sender = 1, !.tried = <<>>,
                        !.result = "none", !.logged = FALSE]
    /\ UNCHANGED <<policy, rt, hub, db, cc, sm>>

\* SendEmail with email disabled, or with no sender configured
SendEmailRefused ==
    /\ nt.pc = "email"
    /\ ~nt.enabled \/ nt.senders = 0
    /\ nt' = [nt EXCEPT !.result = "error", !.pc = "result"]
    /\ UNCHANGED <<policy, rt, hub, db, cc, sm>>

\* the next transport of the client is tried for the current sender
TryTransport ==
    /\ nt.pc = "email" /\ nt.enabled /\ nt.sender <= nt.senders
    /\ \E ok \in BOOLEAN :
         LET ch    == Chain(nt.provider)
             done  == Len(SelectSeq(nt.tried,
                                    LAMBDA e : e.sender = nt.sender))
             tried == Append(nt.tried, [ sender    |-> nt.sender,
                                         transport |-> ch[done + 1],
                                         ok        |-> ok ])
         IN  IF SendStops(ok)
             THEN nt' = [nt EXCEPT !.tried = tried, !.result = "nil",
                                   !.pc = "result"]
             ELSE IF done + 1 < Len(ch)
             THEN nt' = [nt EXCEPT !.tried = tried]
             ELSE IF nt.sender < nt.senders
             THEN nt' = [nt EXCEPT !.tried = tried, !.sender = @ + 1]
             ELSE nt' = [nt EXCEPT !.tried = tried, !.result = "error",
                                   !.pc = "result"]
    /\ UNCHANGED <<policy, rt, hub, db, cc, sm>>

\* SendNotifications logs a failure and returns
LogAndReturn ==
    /\ nt.pc = "result"
    /\ nt' = [nt EXCEPT !.logged = (nt.result = "error"),
                        !.pc = AfterSend(nt.result)]
    /\ UNCHANGED <<policy, rt, hub, db, cc, sm>>

\* Monitor.checkStatus up to the call of SendStatusChangeNotification, or
\* to the end of its body when there is nothing to notify: m.mu is locked,
\* and the notifier enters EmailManager.SendEmail
checkStatusLocks ==
    /\ ~db.mu /\ nt.pc = "waiting"
    /\ db' = [StatusChecked EXCEPT !.mu = TRUE]
    /\ nt' = IF StatusChecked.last.notified
             THEN [nt EXCEPT !.pc = "email", !.sender = 1, !.tried = <<>>,
                             !.result = "none", !.logged = FALSE]
             ELSE nt
    /\ UNCHANGED <<policy, rt, hub, cc, sm>>

\* the notifier has returned (or was not called): broadcastMetrics, and the
\* deferred m.mu.Unlock()
checkStatusReturns ==
    /\ db.mu /\ nt.pc = "waiting"
    /\ db' = [db EXCEPT !.mu = FALSE]
    /\ UNCHANGED <<policy, rt, hub, cc, nt, sm>>

InitDeliver ==
    /\ res = "cpu" /\ cfg \in {c \in Configs : ~c.ThrottlingEnabled}
    /\ mon = NewMonitor /\ ah = NewAlertHandler
    /\ out = Nothing /\ hist = NoHistory
    /\ rt = NewRetry(0) /\ hub = NewHandler
    /\ cc = NoChecks /\ sm = NoAttempt
    /\ \E running \in BOOLEAN : db = NewDb(running)
    /\ \E enabled \in BOOLEAN, provider \in Providers,
          senders \in 0..MaxSenders :
         nt = NewEmailManager(enabled, provider, senders)

NextDeliver ==
    checkStatusLocks \/ SendEmailRefused \/ TryTransport \/ LogAndReturn
    \/ checkStatusReturns \/ MarkAPIAction \/ ServiceChanges \/ DbTick

SpecDeliver == InitDeliver /\ [][NextDeliver]_vars

\* C24: while a transport of a notification is being tried, the lock of the
\* monitor that decided to send it is not held.
C24_NoLockDuringDelivery ==
    (nt.pc = "email" /\ nt.tried # <<>>) => ~db.mu

InitNotify ==
    /\ res = "cpu" /\ cfg \in {c \in Configs : ~c.ThrottlingEnabled}
    /\ mon = NewMonitor /\ ah = NewAlertHandler
    /\ out = Nothing /\ hist = NoHistory
    /\ rt = NewRetry(0) /\ hub = NewHandler /\ db = NewDb(TRUE)
    /\ cc = NoChecks /\ sm = NoAttempt
    /\ \E enabled \in BOOLEAN, provider \in Providers,
          senders \in 0..MaxSenders :
         nt = NewEmailManager(enabled, provider, senders)

NextNotify ==
    SendNotifications \/ SendEmailRefused \/ TryTransport \/ LogAndReturn

SpecNotify == InitNotify /\ [][NextNotify]_vars

\* the goroutine of the monitor keeps running
SpecNotifyFair == SpecNotify /\ WF_vars(NextNotify)

\* the transports tried so far are, sender after sender, a prefix of the
\* order ch in which every transport but the last one tried has failed, and
\* a finished send stopped on a success or after the whole order
TriedInOrder(ch) ==
    LET n == Len(ch)
        t == nt.tried
    IN  /\ \A k \in DOMAIN t :
              /\ t[k].sender = ((k - 1) \div n) + 1
              /\ t[k].transport = ch[((k - 1) % n) + 1]
              /\ k < Len(t) => ~t[k].ok
        /\ (nt.pc = "result" /\ nt.enabled)
              => \/ t # <<>> /\ t[Len(t)].ok
                 \/ Len(t) = n * nt.senders

\* C15 as stated: the transports are tried in the order SMTP, then the
\* external programs, each one if and only if every earlier one failed.
C15_SmtpThenFallbacks == TriedInOrder(<<"smtp">> \o MuttChain)

\* C15 as the code has it: the provider selects the transports. With the
\* provider "mutt" they are mutt, mail, sendmail and the local file, and
\* with any other provider SMTP alone; with email enabled the selected
\* transports are tried in that order for each sender in turn, and one is
\* tried if and only if every earlier attempt of the send has failed.
C15_ProviderSelectsOrder ==
    TriedInOrder(IF nt.provider = "mutt"
                 THEN <<"mutt", "mail", "sendmail", "echo">>
                 ELSE <<"smtp">>)

\* the mail command delivers for the second sender after five failures
C15_SecondSenderMail ==
    /\ nt.pc = "result" /\ nt.result = "nil"
    /\ Len(nt.tried) = 6 /\ nt.tried[6].transport = "mail"

\* C16: a send whose only success is the file written by sendWithEcho is
\* not reported to the caller as delivered.
C16_SinkNotReportedDelivered ==
    nt.result = "nil"
        => \E k \in DOMAIN nt.tried :
               nt.tried[k].ok /\ nt.tried[k].transport # "echo"

\* C17: when every transport has failed for every sender, the error is
\* logged and the monitor is back waiting for its next tick.
C17_FailureLoggedLoopContinues ==
    (nt.pc = "result" /\ nt.result = "error")
        ~> (nt.pc = "waiting" /\ nt.logged)

\* every transport failed for both senders, and the monitor waits again
C17_AllFailedThenWaiting ==
    /\ nt.pc = "waiting" /\ nt.logged /\ nt.result = "error"
    /\ nt.provider = "mutt" /\ Len(nt.tried) = 8

---------------------------------------------------------------------------
(* SMTPClient.sendEmail, one attempt of the retry manager at a time *)

\* sendEmail is called and DefaultFactory.Connect runs; every failure after
\* the dial closes the connection before Connect returns
Connect ==
    /\ sm.pc \in {"idle", "done"}
    /\ \E early \in {"none", "dial", "deadline", "client", "hello"}
                      \cup (IF sm.useSSL THEN {"handshake"} ELSE {}),
          offers \in BOOLEAN, startOk \in BOOLEAN :
         LET asked == ~sm.useSSL /\ sm.useTLS /\ early = "none"
             fail  == IF asked /\ setupTLS(offers, startOk)
                      THEN "starttls" ELSE early
         IN  sm' = [NewSMTPClient(sm.useSSL, sm.useTLS, sm.useLogin) EXCEPT
                      !.opened = (fail # "dial"),
                      !.open   = (fail = "none"),
                      !.failed = fail,
                      !.starttls = IF ~asked THEN "none"
                                   ELSE IF offers THEN "present"
                                   ELSE "absent",
                      !.result = IF fail = "none" THEN "none" ELSE "error",
                      !.pc     = IF fail = "none" THEN "connected"
                                 ELSE "done"]
    /\ UNCHANGED <<policy, rt, hub, db, cc, nt>>

\* DefaultProvider.Authenticate up to its choice of a method
Authenticate ==
    /\ sm.pc = "connected"
    /\ \E ext \in BOOLEAN, plainOk \in BOOLEAN :
         IF ~ext
         THEN sm' = [sm EXCEPT !.auth = "error", !.failed = "auth",
                               !.result = "error", !.pc = "cleanup"]
         ELSE IF sm.useLogin
         THEN sm' = [sm EXCEPT !.pc = "login"]
         ELSE IF plainOk
         THEN sm' = [sm EXCEPT !.auth = "ok", !.pc = "mail"]
         ELSE sm' = [sm EXCEPT !.auth = "error", !.failed = "auth",
                               !.result = "error", !.pc = "cleanup"]
    /\ UNCHANGED <<policy, rt, hub, db, cc, nt>>

\* performLoginAuth: the next command is sent and its reply read; the code
\* 0 stands for an I/O error of command
command ==
    /\ sm.pc = "login"
    /\ \E code \in {334, 235, 535, 0} :
         LET step == sm.sent + 1
             s1   == [sm EXCEPT !.sent = step,
                                !.replies = Append(@, code)]
         IN  IF ~Accepts(step, code)
             THEN sm' = [s1 EXCEPT !.auth = "error", !.failed = "auth",
                                   !.result = "error", !.pc = "cleanup"]
             ELSE IF step = Len(LoginExpects)
             THEN sm' = [s1 EXCEPT !.auth = "ok", !.pc = "mail"]
             ELSE sm' = s1
    /\ UNCHANGED <<policy, rt, hub, db, cc, nt>>

\* MAIL, RCPT, DATA, the message and the end of the data
Deliver ==
    /\ sm.pc = "mail"
    /\ \E fail \in {"mail", "rcpt", "data", "write", "close", "none"} :
         sm' = [sm EXCEPT !.failed = fail,
                          !.result = IF fail = "none" THEN "nil"
                                     ELSE "error",
                          !.pc = "cleanup"]
    /\ UNCHANGED <<policy, rt, hub, db, cc, nt>>

\* the deferred DefaultFactory.Cleanup, then sendEmail returns
Cleanup ==
    /\ sm.pc = "cleanup"
    /\ \E quitOk \in BOOLEAN :
         sm' = [sm EXCEPT !.quit = IF quitOk THEN "ok" ELSE "failed",
                          !.open = OpenAfterCleanup(sm.open, quitOk),
                          !.pc = "done"]
    /\ UNCHANGED <<policy, rt, hub, db, cc, nt>>

InitSmtp ==
    /\ res = "cpu" /\ cfg \in {c \in Configs : ~c.ThrottlingEnabled}
    /\ mon = NewMonitor /\ ah = NewAlertHandler
    /\ out = Nothing /\ hist = NoHistory
    /\ rt = NewRetry(0) /\ hub = NewHandler /\ db = NewDb(TRUE)
    /\ cc = NoChecks /\ nt = NoSend
    /\ \E useSSL \in BOOLEAN, useTLS \in BOOLEAN, useLogin \in BOOLEAN :
         sm = NewSMTPClient(useSSL, useTLS, useLogin)

NextSmtp == Connect \/ Authenticate \/ command \/ Deliver \/ Cleanup

SpecSmtp == InitSmtp /\ [][NextSmtp]_vars

\* C34: with TLS required and no SSL, an attempt that finds STARTTLS not
\* advertised has failed in Connect: no authentication was started, no
\* command of it sent, and the message was not delivered.
C34_NoStartTlsNoAuth ==
    sm.starttls = "absent"
        => /\ sm.useTLS /\ ~sm.useSSL
           /\ sm.pc = "done" /\ sm.result = "error"
           /\ sm.failed = "starttls"
           /\ sm.auth = "none" /\ sm.sent = 0 /\ sm.replies = <<>>
           /\ ~sm.open

\* a LOGIN client has met a server without STARTTLS
C34_TlsRequiredUnsupported ==
    /\ sm.starttls = "absent" /\ sm.useLogin
    /\ sm.pc = "done" /\ sm.result = "error" /\ sm.sent = 0

\* C18: once AUTH LOGIN has ended, it has succeeded exactly when the
\* replies were 334, 334, 235; every reply before the last one was the
\* expected one, so no command follows an unexpected reply, and each of
\* the at most three commands has one reply.
C18_LoginIffExpectedReplies ==
    (sm.useLogin /\ sm.replies # <<>> /\ sm.pc # "login")
        => /\ sm.auth = "ok" <=> sm.replies = <<334, 334, 235>>
           /\ sm.auth \in {"ok", "error"}
           /\ sm.sent = Len(sm.replies) /\ sm.sent <= 3
           /\ \A k \in 1..(Len(sm.replies) - 1) :
                  sm.replies[k] = <<334, 334, 235>>[k]

\* the password is refused with 535 and nothing more is sent
C18_PasswordRefused ==
    /\ sm.replies = <<334, 334, 535>>
    /\ sm.auth = "error" /\ sm.sent = 3 /\ sm.pc = "cleanup"

\* C19: when sendEmail has returned, the connection that the attempt
\* opened, if any, is closed, whatever step failed and whether or not QUIT
\* succeeded.
C19_ClosedAfterAttempt ==
    sm.pc = "done" => ~sm.open

\* authentication failed, QUIT failed as well, and the connection is closed
C19_ClosedAfterFailedQuit ==
    /\ sm.pc = "done" /\ sm.opened /\ ~sm.open
    /\ sm.failed = "auth" /\ sm.quit = "failed"

---------------------------------------------------------------------------
(* The shutdown of the MariaDB monitor *)

\* Monitor.Stop: close(m.stopCh), which panics on a closed channel
Stop(m) ==
    [m EXCEPT !.life.closes = @ + 1,
              !.life.panicked = m.life.closes > 0]

\* Monitor.Start, up to its select: the check made at start
StartChecks ==
    /\ db.life.loop = "start" /\ ~db.life.panicked
    /\ db' = [StatusChecked EXCEPT !.life.loop = "select"]
    /\ UNCHANGED <<policy, rt, hub, cc, nt, sm>>

\* Monitor.Start, case <-ticker.C
TickerFires ==
    /\ db.life.loop = "select" /\ ~db.life.panicked
    /\ db' = StatusChecked
    /\ UNCHANGED <<policy, rt, hub, cc, nt, sm>>

\* Monitor.Start, case <-ctx.Done(): m.Stop() and return
ContextDone ==
    /\ db.life.loop = "select" /\ ~db.life.panicked
    /\ db.life.cancelled
    /\ db' = [Stop(db) EXCEPT !.life.loop = "returned"]
    /\ UNCHANGED <<policy, rt, hub, cc, nt, sm>>

\* Monitor.Start, case <-m.stopCh: return
StopChClosed ==
    /\ db.life.loop = "select" /\ ~db.life.panicked
    /\ db.life.closes > 0
    /\ db' = [db EXCEPT !.life.loop = "returned"]
    /\ UNCHANGED <<policy, rt, hub, cc, nt, sm>>

\* Builder.Shutdown: b.cancel()
ShutdownCancels ==
    /\ db.life.shutdown = "idle" /\ ~db.life.panicked
    /\ db' = [db EXCEPT !.life.cancelled = TRUE,
                        !.life.shutdown = "cancelled"]
    /\ UNCHANGED <<policy, rt, hub, cc, nt, sm>>

\* Builder.Shutdown: b.monitors.mariaDB.Stop()
ShutdownStops ==
    /\ db.life.shutdown = "cancelled" /\ ~db.life.panicked
    /\ db' = [Stop(db) EXCEPT !.life.shutdown = "stopped"]
    /\ UNCHANGED <<policy, rt, hub, cc, nt, sm>>

\* the monitor loop has been started with a live context
InitShutdown ==
    /\ res = "cpu" /\ cfg \in {c \in Configs : ~c.ThrottlingEnabled}
    /\ mon = NewMonitor /\ ah = NewAlertHandler
    /\ out = Nothing /\ hist = NoHistory
    /\ rt = NewRetry(0) /\ hub = NewHandler
    /\ \E running \in BOOLEAN :
         db = [NewDb(running) EXCEPT !.life.loop = "start"]
    /\ cc = NoChecks /\ nt = NoSend /\ sm = NoAttempt

NextShutdown ==
    StartChecks \/ TickerFires \/ ContextDone \/ StopChClosed
    \/ ShutdownCancels \/ ShutdownStops
    \/ MarkAPIAction \/ ServiceChanges \/ DbTick

SpecShutdown == InitShutdown /\ [][NextShutdown]_vars

\* C36: whatever the interleaving of Shutdown with the monitor loop, the
\* stop channel of the MariaDB monitor is closed at most once.
C36_StopChClosedOnce == db.life.closes <= 1

---------------------------------------------------------------------------
(* Starting and stopping the cpu and memory monitors *)

\* the sampling loops that have not returned
Active == {g \in Loops : mon.run.loop[g] \in {"first", "select"}}

\* Monitor.StartMonitoring: an error when already running or disabled;
\* otherwise a new ticker, isRunning = true and a new goroutine, which
\* reads the stopChan made in NewMonitor
StartMonitoring ==
    /\ ~mon.run.panicked
    /\ IF mon.run.isRunning \/ ~mon.run.enabled
       THEN mon' = mon
       ELSE \E g \in Loops :
              /\ mon.run.loop[g] = "none"
              /\ \A k \in 1..(g - 1) : mon.run.loop[k] # "none"
              /\ mon' = [mon EXCEPT !.run.isRunning = TRUE,
                                    !.run.loop[g] = "first"]
    /\ UNCHANGED <<res, cfg, ah, out, hist, rt, hub, db, cc, nt, sm>>

\* Monitor.StopMonitoring: nothing when not running; otherwise
\* close(m.stopChan), which panics on a closed channel, and
\* isRunning = false
StopMonitoring ==
    /\ ~mon.run.panicked
    /\ IF ~mon.run.isRunning
       THEN mon' = mon
       ELSE IF mon.run.closes > 0
       THEN mon' = [mon EXCEPT !.run.closes = @ + 1,
                               !.run.panicked = TRUE]
       ELSE mon' = [mon EXCEPT !.run.closes = @ + 1,
                               !.run.isRunning = FALSE]
    /\ UNCHANGED <<res, cfg, ah, out, hist, rt, hub, db, cc, nt, sm>>

\* the goroutine of StartMonitoring: the check made at once, and the one
\* made on case <-m.ticker.C; the reading is kept in lastInfo
LoopChecks ==
    /\ ~mon.run.panicked
    /\ \E g \in Active, status \in Statuses :
         mon' = [mon EXCEPT !.lastInfo = status,
                            !.run.loop[g] = "select"]
    /\ UNCHANGED <<res, cfg, ah, out, hist, rt, hub, db, cc, nt, sm>>

\* the goroutine of StartMonitoring, case <-m.stopChan: m.ticker.Stop() and
\* return
LoopReturns ==
    /\ ~mon.run.panicked
    /\ \E g \in Loops :
         /\ mon.run.loop[g] = "select"
         /\ mon.run.closes > 0
         /\ mon' = [mon EXCEPT !.run.loop[g] = "returned"]
    /\ UNCHANGED <<res, cfg, ah, out, hist, rt, hub, db, cc, nt, sm>>

InitRun ==
    /\ res \in {"cpu", "memory"} /\ cfg = CHOOSE c \in Configs : TRUE
    /\ \E enabled \in BOOLEAN :
         mon = [NewMonitor EXCEPT !.run.enabled = enabled]
    /\ ah = NewAlertHandler
    /\ out = Nothing /\ hist = NoHistory
    /\ rt = NewRetry(0)
    /\ hub = NewHandler /\ db = NewDb(TRUE) /\ cc = NoChecks
    /\ nt = NoSend /\ sm = NoAttempt

NextRun == StartMonitoring \/ StopMonitoring \/ LoopChecks \/ LoopReturns

SpecRun == InitRun /\ [][NextRun]_vars

\* C38: after any StartMonitoring and StopMonitoring calls, a monitor whose
\* isRunning is true has a sampling loop that has not returned; in
\* particular a start after a stop yields a live loop.
C38_RunningHasLiveLoop == mon.run.isRunning => Active # {}

---------------------------------------------------------------------------
(* Monitor.WebSocketHandler and the Registry, statement by statement *)

\* WebSocketHandler: handler := registry.GetMemoryHandler()
GetMemoryHandler ==
    /\ \E c \in Subscribers :
         /\ cc.reg.pc[c] = "none"
         /\ cc' = [cc EXCEPT !.reg.pc[c] = "got",
                             !.reg.handler[c] = cc.reg.memoryHandler]
    /\ UNCHANGED <<policy, rt, hub, db, nt, sm>>

\* WebSocketHandler: if handler == nil, handler = NewHandler() and
\* registry.RegisterMemoryHandler(handler)
RegisterMemoryHandler ==
    /\ \E c \in Subscribers :
         /\ cc.reg.pc[c] = "got"
         /\ cc.reg.handler[c] = 0
         /\ cc' = [cc EXCEPT !.reg.pc[c] = "registered",
                             !.reg.made = @ + 1,
                             !.reg.handler[c] = cc.reg.made + 1,
                             !.reg.memoryHandler = cc.reg.made + 1]
    /\ UNCHANGED <<policy, rt, hub, db, nt, sm>>

\* WebSocketHandler: handler.ServeHTTP, which adds the client to the
\* clients of the handler this request holds
HandlerServes ==
    /\ \E c \in Subscribers :
         /\ \/ cc.reg.pc[c] = "registered"
            \/ cc.reg.pc[c] = "got" /\ cc.reg.handler[c] # 0
         /\ cc' = [cc EXCEPT !.reg.pc[c] = "connected"]
    /\ UNCHANGED <<policy, rt, hub, db, nt, sm>>

\* Registry.BroadcastMemory: the clients of the registered handler, if
\* any, are written
BroadcastToRegistered ==
    /\ cc' = [cc EXCEPT !.reg.last =
                 [c \in Subscribers |->
                    IF cc.reg.pc[c] # "connected" THEN "none"
                    ELSE IF cc.reg.handler[c] = cc.reg.memoryHandler
                    THEN "written" ELSE "missed"]]
    /\ UNCHANGED <<policy, rt, hub, db, nt, sm>>

\* the client disconnects: ServeHTTP deletes it and WebSocketHandler returns
Disconnects ==
    /\ \E c \in Subscribers :
         /\ cc.reg.pc[c] = "connected"
         /\ cc' = [cc EXCEPT !.reg.pc[c] = "none",
                             !.reg.handler[c] = 0,
                             !.reg.last[c] = "none"]
    /\ UNCHANGED <<policy, rt, hub, db, nt, sm>>

NextRegistry ==
    GetMemoryHandler \/ RegisterMemoryHandler \/ HandlerServes
    \/ BroadcastToRegistered \/ Disconnects

SpecRegistry == InitConc /\ [][NextRegistry]_vars

\* C39: every connected subscriber is a client of the handler that is
\* registered, so every broadcast made while it is connected is written to
\* it, also when several first connections arrive at the same time.
C39_ConnectedIsWritten ==
    \A c \in Subscribers :
        cc.reg.pc[c] = "connected"
            => /\ cc.reg.handler[c] = cc.reg.memoryHandler
               /\ cc.reg.last[c] # "missed"

===========================================================================
